---------------------------- MODULE Spec2Model ----------------------------
(***************************************************************************)
(* Model of the area-map cache of hdfm: src/src/map_manager.py              *)
(* (IHeartRadioConfig, Coordinates, MapManager) and src/src/us_map.py      *)
(* (AreaMap).                                                              *)
(*                                                                         *)
(* Python values are modelled as follows.                                  *)
(*   str            a sequence of one-character strings                    *)
(*   None / object  an option: <<>> is None, <<v>> is the object v         *)
(*   float          an integer number of tenths (40.5 is 405)              *)
(*   an exception   the field err of an operation's result, holding the    *)
(*                  exception's type name ("none" when nothing is raised)  *)
(***************************************************************************)
EXTENDS Integers, Sequences, FiniteSets, TLC

VARIABLES
    area_id,        \* MapManager.area_id: <<>> or <<parsed value>>
    coordinates,    \* MapManager.coordinates: <<>> or <<bounding box>>
    _map,           \* MapManager._map: <<>> or <<image>>
    disk,           \* static_config.cache_directory: name of each file -> the file
    op,             \* the operation that ran last
    err,            \* the exception it raised ("none": it returned)
    ret,            \* what it returned: <<>> or <<image>>
    tier,           \* the branch of the map getter that served the call
    io,             \* the file-system calls it made, in order
    computed,       \* file name -> number of tiles create_map has produced for it
    rt,             \* observer of the sequence reload, get, restart, reload, get
    inval,          \* observer of a reload that cleared another area's tile, then get
    fn,             \* IHeartRadioConfig called on its own: the function called
    arg,            \* its argument
    out,            \* its result
    dump,           \* static_config.dump_directory: name of each file -> its text
    flow,           \* control flows that share the cache directory, each with
                    \* its own MapManager: flow -> its position and instance
    saved,          \* name of each cache file saved so far -> the image saved last
    am,             \* an AreaMap (us_map.py): its attributes
    am_dump,        \* DUMP, the directory AreaMap reads configs from
    am_maps,        \* MAPS, the directory AreaMap saves maps in
    am_call,        \* the AreaMap method that ran last and what it did
    twin            \* observer of a MapManager and an AreaMap given the same
                    \* drops and requests: what each served last, and the area
                    \* of the tile each holds in memory

\* the variables of a call of IHeartRadioConfig on its own
call_vars == <<fn, arg, out>>

\* the variables that the operations of a MapManager leave alone
\* the variables of the control flows that run step by step
flow_vars == <<flow, saved>>

other_vars == <<call_vars, dump, flow_vars>>

\* the variables of the AreaMap
am_vars == <<am, am_dump, am_maps, am_call, twin>>

vars == <<area_id, coordinates, _map, disk, op, err, ret, tier, io, computed,
          rt, inval, other_vars, am_vars>>

-----------------------------------------------------------------------------
(* Characters and strings *)

DQ == "\""
SQ == "'"
Digits == <<"0", "1", "2", "3", "4", "5", "6", "7", "8", "9">>
Letters == {"A", "B", "C", "D", "E", "F", "G", "H", "I", "J", "K", "L", "M",
            "N", "O", "P", "Q", "R", "S", "T", "U", "V", "W", "X", "Y", "Z",
            "a", "b", "c", "d", "e", "f", "g", "h", "i", "j", "k", "l", "m",
            "n", "o", "p", "q", "r", "s", "t", "u", "v", "w", "x", "y", "z"}
\* the characters the regular expression class \w matches
WordChars == Letters \cup {Digits[i] : i \in 1..10} \cup {"_"}

None == <<>>
Some(v) == <<v>>

\* str.split(sep) for a one-character separator
RECURSIVE split(_, _)
split(s, sep) ==
    IF \E i \in 1..Len(s) : s[i] = sep
    THEN LET i == CHOOSE k \in 1..Len(s) :
                      s[k] = sep /\ \A j \in 1..(k - 1) : s[j] # sep
         IN  <<SubSeq(s, 1, i - 1)>> \o split(SubSeq(s, i + 1, Len(s)), sep)
    ELSE <<s>>

\* s[1:-1]
inner(s) == SubSeq(s, 2, Len(s) - 1)

DigitVal(c) == (CHOOSE i \in 1..10 : Digits[i] = c) - 1

RECURSIVE DigitsVal(_)
DigitsVal(s) ==
    IF Len(s) = 0 THEN 0
    ELSE 10 * DigitsVal(SubSeq(s, 1, Len(s) - 1)) + DigitVal(s[Len(s)])

IsDigits(s) == \A i \in 1..Len(s) : s[i] \in {Digits[k] : k \in 1..10}

\* the float, in tenths, of a sign, the digits before the point and the digits
\* after it (the model's floats keep one digit after the point)
float_value(neg, ip, fp) ==
    IF IsDigits(ip) /\ IsDigits(fp) /\ Len(ip) + Len(fp) > 0
    THEN [err |-> "none",
          val |-> (IF neg THEN 0 - 1 ELSE 1)
                  * (10 * DigitsVal(ip)
                     + (IF Len(fp) >= 1 THEN DigitVal(fp[1]) ELSE 0))]
    ELSE [err |-> "ValueError", val |-> 0]

float_parts(neg, parts) ==
    IF Len(parts) > 2 THEN [err |-> "ValueError", val |-> 0]
    ELSE float_value(neg, parts[1], IF Len(parts) = 2 THEN parts[2] ELSE <<>>)

\* float(s): an optional sign, digits with at most one point and at least one
\* digit; anything else raises ValueError
pyfloat(s) ==
    IF Len(s) > 0 /\ s[1] \in {"-", "+"}
    THEN float_parts(s[1] = "-", split(SubSeq(s, 2, Len(s)), "."))
    ELSE float_parts(FALSE, split(s, "."))

-----------------------------------------------------------------------------
(* IHeartRadioConfig *)

\* strip_quotes(s): the function has no return for an unquoted string, so it
\* returns None; s[0] of the empty string raises IndexError
strip_quotes(s) ==
    IF Len(s) = 0 THEN [err |-> "IndexError", val |-> None]
    ELSE IF \/ s[1] = DQ /\ s[Len(s)] = DQ
            \/ s[1] = SQ /\ s[Len(s)] = SQ
         THEN [err |-> "none", val |-> Some(inner(s))]
         ELSE [err |-> "none", val |-> None]

\* [strip_quotes(part) for part in parts]
strip_each(parts) == [i \in 1..Len(parts) |-> strip_quotes(parts[i])]

\* A parsed value is [isList, items], a str or None being the one item of a
\* value that is no list.
parsed_list(stripped) ==
    IF \E i \in 1..Len(stripped) : stripped[i].err # "none"
    THEN [err |-> "IndexError", val |-> [isList |-> TRUE, items |-> <<>>]]
    ELSE [err |-> "none",
          val |-> [isList |-> TRUE,
                   items  |-> [i \in 1..Len(stripped) |-> stripped[i].val]]]

parsed_str(r) == [err |-> r.err, val |-> [isList |-> FALSE, items |-> <<r.val>>]]

\* _parse_value(value)
_parse_value(value) ==
    IF \E i \in 1..Len(value) : value[i] = ";"
    THEN parsed_list(strip_each(split(value, ";")))
    ELSE parsed_str(strip_quotes(value))

\* re.search(r'(\w+)=(.*?)$', line): the leftmost match starts at the word
\* that runs up to the first '=' that follows a word character
word_eqs(line) ==
    {j \in 2..Len(line) : line[j] = "=" /\ line[j - 1] \in WordChars}

word_start(line, j) ==
    CHOOSE k \in 1..(j - 1) :
        /\ \A m \in k..(j - 1) : line[m] \in WordChars
        /\ k = 1 \/ line[k - 1] \notin WordChars

groups(line, j) ==
    Some([key |-> SubSeq(line, word_start(line, j), j - 1),
          val |-> SubSeq(line, j + 1, Len(line))])

search(line, eqs) ==
    IF eqs = {} THEN None
    ELSE groups(line, CHOOSE e \in eqs : \A f \in eqs : e <= f)

key_val_re(line) == search(line, word_eqs(line))

\* result[key] = val
put(result, key, val) ==
    [k \in DOMAIN result \cup {key} |-> IF k = key THEN val ELSE result[k]]

\* the loop of load over the lines, result being the dict built so far (a
\* function from keys to parsed values): load_line is the body for a line
\* whose search gave m, load_entry the assignment of the parsed value v
RECURSIVE load_lines(_, _), load_line(_, _, _), load_entry(_, _, _, _)
load_lines(lines, result) ==
    IF Len(lines) = 0 THEN [err |-> "none", config |-> result]
    ELSE load_line(key_val_re(Head(lines)), Tail(lines), result)

\* load_line that ends the loop at the first line holding no key=value
load_line_stops(m, rest, result) ==
    IF m = None THEN [err |-> "none", config |-> result]
    ELSE load_entry(m[1].key, _parse_value(m[1].val), rest, result)

load_line(m, rest, result) ==
    IF m = None THEN load_lines(rest, result)
    ELSE load_entry(m[1].key, _parse_value(m[1].val), rest, result)

load_entry(key, v, rest, result) ==
    IF v.err # "none" THEN [err |-> v.err, config |-> result]
    ELSE load_lines(rest, put(result, key, v.val))

\* load(text): text.splitlines() is the sequence of lines the text is given as
load(text) == load_lines(text, <<>>)

-----------------------------------------------------------------------------
(* Config entries *)

AreaId_key == <<"D", "W", "R", "_", "A", "r", "e", "a", "_", "I", "D">>
Coordinates_key == <<"C", "o", "o", "r", "d", "i", "n", "a", "t", "e", "s">>

\* len(value) of a parsed value that is not None
pylen(value) ==
    IF value.isList THEN Len(value.items) ELSE Len(value.items[1][1])

\* value[k] of a parsed value: an element of the list, or a character of the str
Element(value, k) ==
    IF value.isList THEN value.items[k]
    ELSE Some(<<value.items[1][1][k]>>)

\* "a, b = parts": ValueError unless there are two parts
unpack2(parts) ==
    IF Len(parts) # 2 THEN [err |-> "ValueError", val |-> <<>>]
    ELSE [err |-> "none", val |-> parts]

\* "a, b = e[1:-1].split(',')": TypeError when e is None
Corner(e) ==
    IF e = None THEN [err |-> "TypeError", val |-> <<>>]
    ELSE unpack2(split(inner(e[1]), ","))

\* the tuple of the four floats
floats(f) ==
    IF \E i \in 1..4 : f[i].err # "none"
    THEN [err |-> "ValueError", val |-> <<>>]
    ELSE [err |-> "none", val |-> <<f[1].val, f[2].val, f[3].val, f[4].val>>]

corners(c1, c2) ==
    IF c1.err # "none" THEN [err |-> c1.err, val |-> <<>>]
    ELSE IF c2.err # "none" THEN [err |-> c2.err, val |-> <<>>]
    ELSE floats(<<pyfloat(c1.val[1]), pyfloat(c1.val[2]),
                  pyfloat(c2.val[1]), pyfloat(c2.val[2])>>)

\* Coordinates.parse(value): the bounding box <<lat_top, lon_left, lat_bottom,
\* lon_right>>; "Exception" is the explicit raise of a malformed value,
\* TypeError is len(None)
Coordinates_parse(value) ==
    IF ~value.isList /\ value.items[1] = None
    THEN [err |-> "TypeError", val |-> <<>>]
    ELSE IF pylen(value) # 2 THEN [err |-> "Exception", val |-> <<>>]
    ELSE corners(Corner(Element(value, 1)), Corner(Element(value, 2)))

lat_top(c) == c[1]
lon_left(c) == c[2]
lat_bottom(c) == c[3]
lon_right(c) == c[4]

-----------------------------------------------------------------------------
(* Inputs: config texts *)

\* the lines of a config text
Quoted(s) == <<DQ>> \o s \o <<DQ>>
Pair(lat, lon) == <<"(">> \o lat \o <<",">> \o lon \o <<")">>
IdLine(v) == AreaId_key \o <<"=">> \o v
CoordLine(v) == Coordinates_key \o <<"=">> \o v
Noise == <<"x", " ", "y">>

N49 == <<"4", "9">>
N24 == <<"2", "4">>
W125 == <<"-", "1", "2", "5">>
W66 == <<"-", "6", "6">>
N40_5 == <<"4", "0", ".", "5">>
N39_5 == <<"3", "9", ".", "5">>
W75_1 == <<"-", "7", "5", ".", "1">>
W74_1 == <<"-", "7", "4", ".", "1">>

Box1 == Quoted(Pair(N49, W125)) \o <<";">> \o Quoted(Pair(N24, W66))
Box2 == Quoted(Pair(N40_5, W75_1)) \o <<";">> \o Quoted(Pair(N39_5, W74_1))

\* well-formed configs: area A and area B with the same box, area A with another
CfgA1 == <<IdLine(Quoted(<<"A">>)), CoordLine(Box1)>>
CfgB1 == <<Noise, CoordLine(Box1), IdLine(Quoted(<<"B">>))>>
CfgA2 == <<IdLine(Quoted(<<"A">>)), Noise, CoordLine(Box2)>>
GoodTexts == {CfgA1, CfgB1, CfgA2}

\* configs that reload_config rejects
CfgNoId == <<CoordLine(Box1)>>
CfgNoCoords == <<IdLine(Quoted(<<"B">>))>>
CfgOneSeg == <<IdLine(Quoted(<<"B">>)), CoordLine(Quoted(Pair(N49, W125)))>>
CfgThreeSeg == <<IdLine(Quoted(<<"B">>)),
                 CoordLine(Box1 \o <<";">> \o Quoted(Pair(N24, W66)))>>
CfgBareSeg == <<IdLine(Quoted(<<"B">>)), CoordLine(Pair(N49, W125))>>
CfgNotNumber == <<IdLine(Quoted(<<"B">>)),
                  CoordLine(Quoted(Pair(<<"x">>, W125)) \o <<";">>
                            \o Quoted(Pair(N24, W66)))>>
CfgEmptyValue == <<IdLine(<<>>), CoordLine(Box1)>>
BadTexts == {CfgNoId, CfgNoCoords, CfgOneSeg, CfgThreeSeg, CfgBareSeg,
             CfgNotNumber, CfgEmptyValue}

ConfigTexts == GoodTexts \cup BadTexts

\* the configs given to a MapManager and an AreaMap side by side: area A and
\* area B with the box of fractional corners
CfgB2 == <<Noise, CoordLine(Box2), IdLine(Quoted(<<"B">>))>>
TwinTexts == {CfgA2, CfgB2}

-----------------------------------------------------------------------------
(* Images and files (PIL). An image is its pixels, its size and its mode; the
   pixels of a tile cut from the main map are named by the crop rectangle. *)

Image(px, size, mode) == [px |-> px, size |-> size, mode |-> mode]

\* image.convert('RGBA')
convert_RGBA(img) == [img EXCEPT !.mode = "RGBA"]

\* image.save(path): the PNG file written, which keeps pixels, size and mode
save(img) == [format |-> "PNG", px |-> img.px, size |-> img.size, mode |-> img.mode]

\* Image.open(path)
open(file) == Image(file.px, file.size, file.mode)

-----------------------------------------------------------------------------
(* MapManager: the projection of create_map. Angles are in tenths of a degree,
   linearised latitudes in units of 1e-5. *)

LAT_MAX == 107992
REF_LAT == 73800
TileSize == 900

\* int(n / d): truncation towards zero
int(n, d) == IF n >= 0 THEN n \div d ELSE 0 - ((0 - n) \div d)

\* math.asinh(math.tan(math.radians(val))), tabulated for the latitudes of the
\* model's configs
asinh_tan_radians(val) ==
    CASE val = 490 -> 98381
      [] val = 240 -> 43169
      [] val = 405 -> 77434
      [] val = 395 -> 75156

make_linear(val) == LAT_MAX - asinh_tan_radians(val)

\* int((lon + 130.781250) * 7162 / 39.34135): with lon = val / 10 the product is
\* a * 895250 / 786827 for a = 16 * val + 20925, and 895250 = 786827 + 108423
x_pixel(val) ==
    LET a == 16 * val + 20925
    IN  a + int(a * 108423, 786827)

\* int(lin * 3565 / den)
y_pixel(val) == int(make_linear(val) * 3565, LAT_MAX - REF_LAT)

\* main_map.crop(box).resize((900, 900)).convert('RGBA')
cropped(box) ==
    convert_RGBA(Image(box, <<TileSize, TileSize>>, "RGB"))

\* create_map with self.coordinates = coords: AttributeError when there are no
\* coordinates, else the cropped, resized and converted map
create_map(coords) ==
    IF coords = None THEN [err |-> "AttributeError", val |-> None]
    ELSE [err |-> "none",
          val |-> Some(cropped(<<x_pixel(lon_left(coords[1])),
                                 y_pixel(lat_top(coords[1])),
                                 x_pixel(lon_right(coords[1])),
                                 y_pixel(lat_bottom(coords[1]))>>))]

-----------------------------------------------------------------------------
(* MapManager: cache file, setter *)

\* map_cache_file for self.area_id = aid (which is not None)
map_cache_file(aid) == <<"map_", aid[1], ".png">>

has_config == area_id # None /\ coordinates # None

\* the file system with file f removed / written
unlink(dsk, f) == [g \in DOMAIN dsk \ {f} |-> dsk[g]]
write(dsk, f, file) == [g \in DOMAIN dsk \cup {f} |-> IF g = f THEN file ELSE dsk[g]]

\* replace_file with the two steps in the other order: saved, then deleted
replace_file_unlink_last(value, dsk, f) ==
    [map  |-> Some(value),
     disk |-> unlink(write(dsk, f, save(value)), f),
     err  |-> "none",
     io   |-> <<<<"save", f>>, <<"exists", f>>, <<"unlink", f>>>>]

\* replace_file that empties the cache directory before it saves
replace_file_clears(value, dsk, f) ==
    [map  |-> Some(value),
     disk |-> write(<<>>, f, save(value)),
     err  |-> "none",
     io   |-> <<<<"exists", f>>, <<"unlink", f>>, <<"save", f>>>>]

\* replace_file that leaves a cache file that exists as it is
replace_file_keeps(value, dsk, f) ==
    [map  |-> Some(value),
     disk |-> IF f \in DOMAIN dsk THEN dsk ELSE write(dsk, f, save(value)),
     err  |-> "none",
     io   |-> <<<<"exists", f>>>>]

\* the end of the setter: the cache file f is deleted if it exists, then saved
replace_file(value, dsk, f) ==
    IF f \in DOMAIN dsk
    THEN [map  |-> Some(value),
          disk |-> write(unlink(dsk, f), f, save(value)),
          err  |-> "none",
          io   |-> <<<<"exists", f>>, <<"unlink", f>>, <<"save", f>>>>]
    ELSE [map  |-> Some(value),
          disk |-> write(dsk, f, save(value)),
          err  |-> "none",
          io   |-> <<<<"exists", f>>, <<"save", f>>>>]

\* the map setter, self.map = value, run with area_id = aid on the file
\* system dsk: _map is assigned first, then the cache file is replaced
\* (map_cache_file raises AttributeError when area_id is None)
map_setter(value, aid, dsk) ==
    IF aid = None
    THEN [map |-> Some(value), disk |-> dsk, err |-> "AttributeError", io |-> <<>>]
    ELSE replace_file(value, dsk, map_cache_file(aid))

-----------------------------------------------------------------------------
(* MapManager: reload_config and the map getter, as functions of the instance
   self = [area_id, coordinates, map] *)

\* the config entries reload_config constructs from fp.read() = text, in its
\* order: load, AreaId(config[AreaId.key]), Coordinates(config[Coordinates.key]);
\* an entry is None when an exception was raised before it was constructed
entries_of(l) ==
    IF l.err # "none"
    THEN [err |-> l.err, area_id |-> None, coordinates |-> None]
    ELSE IF AreaId_key \notin DOMAIN l.config
    THEN [err |-> "KeyError", area_id |-> None, coordinates |-> None]
    ELSE IF Coordinates_key \notin DOMAIN l.config
    THEN [err |-> "KeyError", area_id |-> Some(l.config[AreaId_key]),
          coordinates |-> None]
    ELSE [area_id |-> Some(l.config[AreaId_key]),
          c       |-> Coordinates_parse(l.config[Coordinates_key])]

constructed(e) ==
    IF "c" \notin DOMAIN e THEN e
    ELSE [err         |-> e.c.err,
          area_id     |-> e.area_id,
          coordinates |-> IF e.c.err = "none" THEN Some(e.c.val) ELSE None]

entries(text) == constructed(entries_of(load(text)))

\* entries(text) for each text of the model, evaluated once
Entries == {<<t, entries(t)>> : t \in ConfigTexts \cup TwinTexts}

\* reload_config without its last line, self._map = None
reload_config_keeps_map(self, text) ==
    LET e == (CHOOSE p \in Entries : p[1] = text)[2]
    IN  [self |-> [area_id     |-> IF e.area_id # None THEN e.area_id
                                   ELSE self.area_id,
                   coordinates |-> IF e.coordinates # None THEN e.coordinates
                                   ELSE self.coordinates,
                   map         |-> self.map],
         err  |-> e.err]

\* reload_config(fp): self.area_id is assigned as soon as the AreaId entry is
\* constructed, self.coordinates as soon as the Coordinates entry is, and _map
\* is cleared last
reload_config(self, text) ==
    LET e == (CHOOSE p \in Entries : p[1] = text)[2]
    IN  [self |-> [area_id     |-> IF e.area_id # None THEN e.area_id
                                   ELSE self.area_id,
                   coordinates |-> IF e.coordinates # None THEN e.coordinates
                                   ELSE self.coordinates,
                   map         |-> IF e.err = "none" THEN None ELSE self.map],
         err  |-> e.err]

\* what a call of the map getter gives when it raises e before any assignment
Raised(self, dsk, e, trace) ==
    [self |-> self, disk |-> dsk, err |-> e, ret |-> None, tier |-> "none",
     io |-> trace, made |-> 0]

\* "self.map = map_image; return image": w is what the setter did
Stored(self, w, image, branch, trace, n) ==
    [self |-> [self EXCEPT !.map = w.map], disk |-> w.disk, err |-> w.err,
     ret |-> Some(image), tier |-> branch, io |-> trace \o w.io, made |-> n]

\* the second branch of the getter, map_image being Image.open(cache file)
from_file(self, dsk, f, map_image) ==
    Stored(self, map_setter(map_image, self.area_id, dsk),
           convert_RGBA(map_image), "disk",
           <<<<"exists", f>>, <<"open", f>>>>, 0)

\* the third branch of the getter, m being what create_map gave
from_create_map(self, dsk, f, m) ==
    IF m.err # "none" THEN Raised(self, dsk, m.err, <<<<"exists", f>>>>)
    ELSE Stored(self, map_setter(m.val[1], self.area_id, dsk),
                m.val[1], "compute", <<<<"exists", f>>>>, 1)

\* lookup that never looks for the cache file
lookup_no_file(self, dsk, f) ==
    from_create_map(self, dsk, f, create_map(self.coordinates))

lookup(self, dsk, f) ==
    IF f \in DOMAIN dsk THEN from_file(self, dsk, f, open(dsk[f]))
    ELSE from_create_map(self, dsk, f, create_map(self.coordinates))

\* the getter with the cache file looked up before the cache attribute
map_getter_file_first(self, dsk) ==
    IF self.area_id # None /\ map_cache_file(self.area_id) \in DOMAIN dsk
    THEN lookup(self, dsk, map_cache_file(self.area_id))
    ELSE IF self.map # None
    THEN [self |-> self, disk |-> dsk, err |-> "none", ret |-> self.map,
          tier |-> "memory", io |-> <<>>, made |-> 0]
    ELSE IF self.area_id = None THEN Raised(self, dsk, "AttributeError", <<>>)
    ELSE lookup(self, dsk, map_cache_file(self.area_id))

\* the map getter: the cache attribute, then the cache file, then create_map
map_getter(self, dsk) ==
    IF self.map # None
    THEN [self |-> self, disk |-> dsk, err |-> "none", ret |-> self.map,
          tier |-> "memory", io |-> <<>>, made |-> 0]
    ELSE IF self.area_id = None THEN Raised(self, dsk, "AttributeError", <<>>)
    ELSE lookup(self, dsk, map_cache_file(self.area_id))

-----------------------------------------------------------------------------
(* Inputs: images; bounds *)

\* images a caller assigns to the map property: the odd ones are RGB images of
\* another size, the even ones RGBA images of the tile size
NumExt == 2
Ext(i) == IF i % 2 = 1 THEN Image(<<0, 0, i, i>>, <<450, 450>>, "RGB")
          ELSE Image(<<0, 0, i, i>>, <<TileSize, TileSize>>, "RGBA")
ExtTiles == {Ext(i) : i \in 1..NumExt}

\* create_map runs at most this often for one cache file
MaxComputes == 2

-----------------------------------------------------------------------------
(* The state machine *)

Self == [area_id |-> area_id, coordinates |-> coordinates, map |-> _map]

Count(f) == IF f \in DOMAIN computed THEN computed[f] ELSE 0

Idle == [ph |-> 0, f |-> None, t |-> None]

\* rt follows: 1 a reload that succeeded, 2 a get that returned t, 3 a new
\* instance, 4 a reload for the same cache file, 5 the get of the new instance
RtNext(name, e, aid, r) ==
    LET f == IF aid = None THEN None ELSE Some(map_cache_file(aid))
    IN  CASE name = "reload_config" /\ e = "none" ->
                 IF rt.ph = 3 /\ rt.f = f THEN [rt EXCEPT !.ph = 4]
                 ELSE [ph |-> 1, f |-> f, t |-> None]
          [] name = "map_get" /\ e = "none" /\ rt.ph = 1 ->
                 [rt EXCEPT !.ph = 2, !.t = r]
          [] name = "map_get" /\ rt.ph = 4 -> [rt EXCEPT !.ph = 5]
          [] name = "init" /\ rt.ph = 2 -> [rt EXCEPT !.ph = 3]
          [] OTHER -> Idle

\* no call of IHeartRadioConfig on its own is made
NoCall == fn = "none" /\ arg = None /\ out = None

\* a MapManager after __init__, the cache directory empty
New ==
    /\ area_id = None
    /\ coordinates = None
    /\ _map = None
    /\ disk = <<>>
    /\ op = "init"
    /\ err = "none"
    /\ ret = None
    /\ tier = "none"
    /\ io = <<>>
    /\ computed = <<>>
    /\ rt = Idle
    /\ inval = Idle

\* no control flow runs beside the one of the MapManager
NoFlows == flow = <<>> /\ saved = <<>>

\* an AreaMap after __init__, its directories empty, nothing called
AmIdle == [op |-> "init", err |-> "none", ret |-> None, tier |-> "none",
           renders |-> 0]

TwinIdle == [mm_held |-> None, am_held |-> None,
             mm |-> [tier |-> "none", area |-> None],
             am |-> [tier |-> "none", area |-> None]]

AmNew ==
    /\ am = [lat1 |-> None, lon1 |-> None, lat2 |-> None, lon2 |-> None,
             area_id |-> None, map |-> None]
    /\ am_dump = <<>>
    /\ am_maps = <<>>
    /\ am_call = AmIdle
    /\ twin = TwinIdle

Init == New /\ NoCall /\ dump = <<>> /\ NoFlows /\ AmNew

\* __init__: a new MapManager (a restart of the process); the cache directory
\* stays as it is
Restart ==
    /\ area_id' = None
    /\ coordinates' = None
    /\ _map' = None
    /\ op' = "init"
    /\ err' = "none"
    /\ ret' = None
    /\ tier' = "none"
    /\ io' = <<>>
    /\ rt' = RtNext("init", "none", None, None)
    /\ inval' = Idle
    /\ UNCHANGED <<disk, computed, other_vars, am_vars>>

\* the observers after reload_config gave r
Reloaded(r) ==
    /\ area_id' = r.self.area_id
    /\ coordinates' = r.self.coordinates
    /\ _map' = r.self.map
    /\ op' = "reload_config"
    /\ err' = r.err
    /\ ret' = None
    /\ tier' = "none"
    /\ io' = <<>>
    /\ rt' = RtNext("reload_config", r.err, r.self.area_id, None)
    /\ inval' = IF /\ r.err = "none" /\ _map # None /\ area_id # None
                   /\ area_id # r.self.area_id
                THEN [ph |-> 1, f |-> Some(map_cache_file(area_id)), t |-> _map]
                ELSE Idle
    /\ UNCHANGED <<disk, computed, other_vars, am_vars>>

ReloadConfig(text) == Reloaded(reload_config(Self, text))

\* the observers after the getter gave r
Got(r) ==
    /\ r.made = 1 => Count(map_cache_file(area_id)) < MaxComputes
    /\ area_id' = r.self.area_id
    /\ coordinates' = r.self.coordinates
    /\ _map' = r.self.map
    /\ disk' = r.disk
    /\ op' = "map_get"
    /\ err' = r.err
    /\ ret' = r.ret
    /\ tier' = r.tier
    /\ io' = r.io
    /\ computed' = IF r.made = 1
                   THEN write(computed, map_cache_file(area_id),
                              Count(map_cache_file(area_id)) + 1)
                   ELSE computed
    /\ rt' = RtNext("map_get", r.err, area_id, r.ret)
    /\ inval' = IF inval.ph = 1 THEN [inval EXCEPT !.ph = 2] ELSE Idle
    /\ UNCHANGED other_vars

GetTile == Got(map_getter(Self, disk)) /\ UNCHANGED am_vars

\* the observers after the setter did w
Assigned(w) ==
    /\ _map' = w.map
    /\ disk' = w.disk
    /\ op' = "map_set"
    /\ err' = w.err
    /\ ret' = None
    /\ tier' = "none"
    /\ io' = w.io
    /\ rt' = Idle
    /\ inval' = Idle
    /\ UNCHANGED <<area_id, coordinates, computed, other_vars, am_vars>>

SetTile(value) == Assigned(map_setter(value, area_id, disk))

Next ==
    \/ Restart
    \/ \E text \in ConfigTexts : ReloadConfig(text)
    \/ GetTile
    \/ \E value \in ExtTiles : SetTile(value)

Spec == Init /\ [][Next]_vars

-----------------------------------------------------------------------------
(* Properties *)

\* the cache file of the current area
File == map_cache_file(area_id)

\* C1: with a config loaded, the getter resolves memory, then disk, then
\* compute, each step short-circuiting: a held _map is returned with no file
\* access and no create_map; else an existing cache file of the current area
\* is what is returned (its pixels and size) and create_map does not run;
\* create_map runs only when _map is None and the area has no cache file.
C1_TierOrder ==
    [][(op' = "map_get" /\ has_config) =>
          IF _map # None
          THEN /\ err' = "none" /\ tier' = "memory" /\ ret' = _map
               /\ io' = <<>> /\ disk' = disk /\ computed' = computed
          ELSE IF File \in DOMAIN disk
          THEN /\ err' = "none" /\ tier' = "disk" /\ ret' # None
               /\ ret'[1].px = disk[File].px /\ ret'[1].size = disk[File].size
               /\ computed' = computed
          ELSE /\ err' = "none" /\ tier' = "compute"
               /\ computed' = write(computed, File, Count(File) + 1)]_vars

\* a call served from the cache file: _map was None, create_map did not run
C1_Witness ==
    /\ op = "map_get" /\ err = "none" /\ tier = "disk" /\ has_config
    /\ <<"open", File>> \in {io[i] : i \in 1..Len(io)}

\* C2: a reload_config that succeeds leaves _map None, and the getter called
\* next returns the content of the new area's cache file or the tile computed
\* from the new coordinates, never the tile that was held before (also when
\* the old and the new area have the same bounding box).
C2_Invalidation ==
    [][/\ (op' = "reload_config" /\ err' = "none") => _map' = None
       /\ (op = "reload_config" /\ err = "none" /\ op' = "map_get") =>
             /\ err' = "none"
             /\ \/ /\ tier' = "disk" /\ File \in DOMAIN disk
                   /\ ret' = Some(convert_RGBA(open(disk[File])))
                \/ /\ tier' = "compute" /\ File \notin DOMAIN disk
                   /\ ret' = create_map(coordinates).val]_vars

\* the reload cleared the tile of another area with the same bounding box, and
\* the getter computed the new area's tile afresh
C2_Witness ==
    /\ inval.ph = 2 /\ op = "map_get" /\ tier = "compute"
    /\ inval.f # Some(File) /\ inval.t = ret

\* C3: whenever _map is set, the cache file of the current area exists and
\* holds the same image.
C3_MemoryDiskConsistent ==
    _map # None =>
        /\ area_id # None
        /\ File \in DOMAIN disk
        /\ open(disk[File]) = _map[1]

\* C4: a reload_config that raises leaves area_id, coordinates and _map as
\* they were.
C4_AllOrNothing ==
    [][(op' = "reload_config" /\ err' # "none") =>
          /\ area_id' = area_id
          /\ coordinates' = coordinates
          /\ _map' = _map]_vars

\* C5: without a config loaded the getter raises, returns nothing and leaves
\* _map and the cache files unchanged.
C5_NotConfigured ==
    [][(op' = "map_get" /\ ~has_config) =>
          /\ err' = "AttributeError" /\ ret' = None
          /\ _map' = _map /\ disk' = disk]_vars

\* C6: with a config loaded, the getter called twice in a row returns the same
\* tile both times, the second call being served from _map with no file
\* access and no create_map, the cache files unchanged.
C6_Idempotent ==
    [][(op = "map_get" /\ err = "none" /\ has_config /\ op' = "map_get") =>
          /\ err' = "none" /\ ret' = ret /\ tier' = "memory"
          /\ io' = <<>> /\ computed' = computed /\ disk' = disk]_vars

\* C7: after a reload_config and a getter call that returned t, the first
\* getter call of a new instance that loaded a config with the same area id
\* returns t, served from the cache file.
C7_RoundTrip ==
    rt.ph = 5 => /\ err = "none" /\ tier = "disk" /\ ret = rt.t

\* the new instance has answered, and the tile had been computed by create_map
C7_Witness ==
    /\ rt.ph = 5 /\ ret # None /\ Count(File) = 1
    /\ ret = create_map(coordinates).val

\* C8: create_map runs at most once for an area id.
C8_ComputeOnce == \A f \in DOMAIN computed : computed[f] <= 1

\* a call for an area whose tile was computed before is served from its file
C8_Witness ==
    /\ op = "map_get" /\ tier = "disk" /\ area_id # None /\ Count(File) = 1
    /\ Cardinality(DOMAIN computed) = 2

\* C9: reload_config changes no cache file, and no operation creates, deletes
\* or changes the cache file of an area other than the current one.
C9_Frame ==
    [][/\ op' = "reload_config" => disk' = disk
       /\ \A f \in DOMAIN disk \cup DOMAIN disk' :
             (area_id' = None \/ f # map_cache_file(area_id')) =>
                 /\ f \in DOMAIN disk /\ f \in DOMAIN disk'
                 /\ disk'[f] = disk[f]]_vars

\* the cache file of the current area was just replaced while another area's
\* file exists
C9_Witness ==
    /\ area_id # None
    /\ <<"unlink", File>> \in {io[i] : i \in 1..Len(io)}
    /\ \E f \in DOMAIN disk : f # File

\* the value text of the last line of the text whose key is key, None if no
\* line has that key
RawValue(text, key) ==
    LET at == {i \in 1..Len(text) :
                  /\ key_val_re(text[i]) # None
                  /\ key_val_re(text[i])[1].key = key}
    IN  IF at = {} THEN None
        ELSE Some(key_val_re(text[CHOOSE i \in at : \A j \in at : j <= i])[1].val)

\* the number of ;-separated segments of an option of a value text
Segments(raw) == IF raw = None THEN 0 ELSE Len(split(raw[1], ";"))

Shapes ==
    {<<t, [noId |-> RawValue(t, AreaId_key) = None,
           segs |-> Segments(RawValue(t, Coordinates_key))]>> : t \in ConfigTexts}

Shape(text) == (CHOOSE p \in Shapes : p[1] = text)[2]

\* C10: a config whose coordinates have a number of segments other than 2 is
\* rejected as malformed coordinates (the explicit raise or the ValueError of
\* the unpacking or of float), a config with no area id key is rejected with
\* KeyError, and in neither case is a descriptor produced: area_id and
\* coordinates stay as they were.
C10_Rejected ==
    [][\A text \in ConfigTexts : ReloadConfig(text) =>
          /\ Shape(text).noId =>
                /\ err' = "KeyError"
                /\ area_id' = area_id /\ coordinates' = coordinates
          /\ (~Shape(text).noId /\ Shape(text).segs \notin {0, 2}) =>
                /\ err' \in {"Exception", "ValueError"}
                /\ area_id' = area_id /\ coordinates' = coordinates]_vars

-----------------------------------------------------------------------------
(* IHeartRadioConfig on its own: _parse_value applied to a value text, and
   the entries reload_config constructs applied to a config text *)

\* the value texts: every string of at most MaxLen of these characters
MaxLen == 3
ValueChars == {DQ, SQ, "a", ";"}
Values == UNION {[1..n -> ValueChars] : n \in 0..MaxLen}

\* the config texts: the area id line, the coordinates line and lines that
\* hold no key=value, at most MaxLines lines in every order
MaxLines == 4
Ids == {<<"A">>, <<"A", "B", "C", "1", "2", "3">>}
Boxes == {[str |-> Box1, val |-> <<490, 0 - 1250, 240, 0 - 660>>],
          [str |-> Box2, val |-> <<405, 0 - 751, 395, 0 - 741>>]}
NoiseLines == <<Noise, <<>>, <<"=", "1">>>>

\* a layout gives each line its kind: 1 the area id, 2 the coordinates, 2 + k
\* the k-th noise line
Layouts ==
    {l \in UNION {[1..n -> 1..(2 + Len(NoiseLines))] : n \in 2..MaxLines} :
        /\ Cardinality({i \in DOMAIN l : l[i] = 1}) = 1
        /\ Cardinality({i \in DOMAIN l : l[i] = 2}) = 1}

TextOf(l, id, box) ==
    [i \in DOMAIN l |-> CASE l[i] = 1 -> IdLine(Quoted(id))
                          [] l[i] = 2 -> CoordLine(box.str)
                          [] OTHER    -> NoiseLines[l[i] - 2]]

Calls ==
    {[kind |-> "value", v |-> v] : v \in Values}
    \cup {[kind |-> "text", v |-> TextOf(l, id, box), id |-> id, box |-> box.val,
           noise |-> Len(l) - 2, first |-> l[1]] :
              l \in Layouts, id \in Ids, box \in Boxes}

CallInit ==
    /\ New
    /\ dump = <<>>
    /\ NoFlows
    /\ AmNew
    /\ fn = "none"
    /\ arg \in Calls
    /\ out = None

Returned(name, r) ==
    /\ fn' = name
    /\ out' = r
    /\ UNCHANGED <<area_id, coordinates, _map, disk, op, err, ret, tier, io,
                   computed, rt, inval, arg, dump, flow_vars, am_vars>>

\* IHeartRadioConfig._parse_value(value)
ParseValue ==
    /\ fn = "none" /\ arg.kind = "value"
    /\ Returned("_parse_value", _parse_value(arg.v))

\* the entries of reload_config(fp) for fp.read() = text
Ingest ==
    /\ fn = "none" /\ arg.kind = "text"
    /\ Returned("reload_config", entries(arg.v))

CallNext == ParseValue \/ Ingest

CallSpec == CallInit /\ [][CallNext]_vars

\* a string wrapped in a pair of matching quotes
Wrapped(s) ==
    /\ Len(s) >= 2
    /\ \/ s[1] = DQ /\ s[Len(s)] = DQ
       \/ s[1] = SQ /\ s[Len(s)] = SQ

\* a value with one layer of wrapping quotes removed, if it has one
Unwrapped(s) == IF Wrapped(s) THEN inner(s) ELSE s

\* C11: _parse_value records a value, or each ;-separated part of it, with at
\* most one layer of wrapping quotes removed: a wrapped value loses that one
\* pair, a non-empty value that is not wrapped is recorded unchanged, as a
\* string.
C11_QuotesStripped ==
    (fn = "_parse_value" /\ \A i \in 1..Len(split(arg.v, ";")) :
                                Len(split(arg.v, ";")[i]) > 0) =>
        /\ out.err = "none"
        /\ IF \E i \in 1..Len(arg.v) : arg.v[i] = ";"
           THEN /\ out.val.isList
                /\ out.val.items =
                      [i \in 1..Len(split(arg.v, ";")) |->
                          Some(Unwrapped(split(arg.v, ";")[i]))]
           ELSE /\ ~out.val.isList
                /\ out.val.items = <<Some(Unwrapped(arg.v))>>

\* C12: a config text with a line DWR_Area_ID="<id>" and a line
\* Coordinates="(a,b)";"(c,d)", in either order and with lines that hold no
\* key=value between them, gives the area id <id> and the bounding box
\* lat_top = a, lon_left = b, lat_bottom = c, lon_right = d; no line raises.
C12_Ingested ==
    fn = "reload_config" =>
        /\ out.err = "none"
        /\ out.area_id = Some([isList |-> FALSE, items |-> <<Some(arg.id)>>])
        /\ out.coordinates # None
        /\ lat_top(out.coordinates[1]) = arg.box[1]
        /\ lon_left(out.coordinates[1]) = arg.box[2]
        /\ lat_bottom(out.coordinates[1]) = arg.box[3]
        /\ lon_right(out.coordinates[1]) = arg.box[4]

\* a text that starts with a line holding no key=value, has the coordinates
\* before the area id and fractional corners
C12_Witness ==
    /\ fn = "reload_config" /\ arg.noise = 2 /\ arg.first > 2
    /\ \E i, j \in 1..Len(arg.v) :
          /\ i < j
          /\ key_val_re(arg.v[i]) # None /\ key_val_re(arg.v[j]) # None
          /\ key_val_re(arg.v[i])[1].key = Coordinates_key
          /\ key_val_re(arg.v[j])[1].key = AreaId_key
    /\ out.coordinates = Some(<<405, 0 - 751, 395, 0 - 741>>)

-----------------------------------------------------------------------------
(* MapManager driven by config drops: find_and_reload_config *)

\* the files of the dump directory: MaxDrops names that match *DWRI* and one
\* that does not
MaxDrops == 2
DWRI == <<"D", "W", "R", "I">>
DropNames == {<<"x">> \o DWRI \o <<Digits[k + 1]>> : k \in 1..MaxDrops}
OtherNames == {<<"D", "W", "R", "l", "o", "g">>}
DropTexts == {CfgA1, CfgB1, CfgOneSeg}

\* the name matches the pattern *pat*
matches(name, pat) ==
    \E i \in 0..(Len(name) - Len(pat)) : SubSeq(name, i + 1, i + Len(pat)) = pat

\* dump_directory.glob('*DWRI*')
glob(dmp) == {n \in DOMAIN dmp : matches(n, DWRI)}

\* the lists that hold the elements of S once each: glob gives the matches in
\* the order of the directory, which is any order
RECURSIVE Orders(_)
Orders(S) ==
    IF S = {} THEN {<<>>}
    ELSE UNION {{<<x>> \o o : o \in Orders(S \ {x})} : x \in S}

\* "for file in files: file.unlink()"
unlink_all(dmp, files) ==
    [n \in DOMAIN dmp \ {files[i] : i \in 1..Len(files)} |-> dmp[n]]

\* the end of find_and_reload_config, r being what reload_config did: an
\* exception of reload_config leaves the with block and the function
reloaded_from(r, dmp, files) ==
    IF r.err # "none"
    THEN [self |-> r.self, dump |-> dmp, err |-> r.err, ret |-> None]
    ELSE [self |-> r.self, dump |-> unlink_all(dmp, files), err |-> "none",
          ret |-> Some(TRUE)]

\* find_and_reload_config that deletes the file it read and no other
find_and_reload_config_unlinks_first(self, dmp, files) ==
    IF Len(files) = 0
    THEN [self |-> self, dump |-> dmp, err |-> "none", ret |-> Some(FALSE)]
    ELSE reloaded_from(reload_config(self, dmp[files[1]]), dmp, <<files[1]>>)

\* find_and_reload_config(), files being the list glob returned
find_and_reload_config(self, dmp, files) ==
    IF Len(files) = 0
    THEN [self |-> self, dump |-> dmp, err |-> "none", ret |-> Some(FALSE)]
    ELSE reloaded_from(reload_config(self, dmp[files[1]]), dmp, files)

\* a config file arrives in the dump directory
Dropped(name, text) ==
    /\ name \notin DOMAIN dump
    /\ dump' = write(dump, name, text)
    /\ op' = "drop"
    /\ err' = "none"
    /\ ret' = None
    /\ tier' = "none"
    /\ io' = <<>>
    /\ rt' = Idle
    /\ inval' = Idle
    /\ UNCHANGED <<area_id, coordinates, _map, disk, computed, call_vars,
                   flow_vars>>

Drop(name, text) == Dropped(name, text) /\ UNCHANGED am_vars

\* the observers after find_and_reload_config gave r
Polled(r) ==
    /\ area_id' = r.self.area_id
    /\ coordinates' = r.self.coordinates
    /\ _map' = r.self.map
    /\ dump' = r.dump
    /\ op' = "find_and_reload_config"
    /\ err' = r.err
    /\ ret' = r.ret
    /\ tier' = "none"
    /\ io' = <<>>
    /\ rt' = Idle
    /\ inval' = Idle
    /\ UNCHANGED <<disk, computed, call_vars, flow_vars>>

FindAndReloadConfig(files) ==
    Polled(find_and_reload_config(Self, dump, files)) /\ UNCHANGED am_vars

PollNext ==
    \/ \E name \in DropNames \cup OtherNames, text \in DropTexts : Drop(name, text)
    \/ \E files \in Orders(glob(dump)) : FindAndReloadConfig(files)
    \/ GetTile

PollSpec == Init /\ [][PollNext]_vars

\* C13: a find_and_reload_config that finds files matching *DWRI* feeds one of
\* them (the first of the list) to reload_config and ends with every file it
\* found deleted from the dump directory, so that no later call reads it; one
\* that finds none returns False and changes neither area_id, coordinates,
\* _map nor any file.
C13_DropsConsumed ==
    [][op' = "find_and_reload_config" =>
          IF glob(dump) # {}
          THEN /\ \E n \in glob(dump) :
                     /\ area_id' = reload_config(Self, dump[n]).self.area_id
                     /\ coordinates' = reload_config(Self, dump[n]).self.coordinates
               /\ glob(dump') = {}
               /\ \A n \in DOMAIN dump \ glob(dump) :
                     n \in DOMAIN dump' /\ dump'[n] = dump[n]
          ELSE /\ ret' = Some(FALSE) /\ err' = "none"
               /\ area_id' = area_id /\ coordinates' = coordinates
               /\ _map' = _map /\ disk' = disk /\ dump' = dump]_vars

-----------------------------------------------------------------------------
(* MapManager: the tiles returned and stored *)

\* C14: with a config loaded, every tile the getter returns, from the cache attribute, the cache
\* file or create_map, and on a call repeated after a call served from the
\* cache file, has the size 900x900 and a mode with an alpha channel.
C14_OutputShape ==
    (op = "map_get" /\ ret # None /\ has_config) =>
        /\ ret[1].size = <<TileSize, TileSize>>
        /\ ret[1].mode = "RGBA"

\* C15: with a config loaded, a setter call for tile t that returns (made by a
\* caller, or by the getter on its cache-file and create_map branches) leaves
\* _map = t and the cache file of the current area existing and holding t,
\* whether or not the file existed; the getter served from the cache file
\* leaves the content of that file as it was.
C15_SetTileEndState ==
    [][/\ \A value \in ExtTiles : (SetTile(value) /\ has_config) =>
              /\ err' = "none" /\ _map' = Some(value)
              /\ File \in DOMAIN disk' /\ open(disk'[File]) = value
       /\ (op' = "map_get" /\ has_config /\ tier' = "disk") =>
              /\ _map' = Some(open(disk[File]))
              /\ File \in DOMAIN disk' /\ disk'[File] = disk[File]
       /\ (op' = "map_get" /\ has_config /\ tier' = "compute") =>
              /\ _map' = create_map(coordinates).val
              /\ File \in DOMAIN disk' /\ Some(open(disk'[File])) = _map']_vars

\* the getter was served from the cache file, which it deleted and wrote again
C15_Witness ==
    /\ op = "map_get" /\ tier = "disk" /\ has_config
    /\ io = <<<<"exists", File>>, <<"open", File>>, <<"exists", File>>,
              <<"unlink", File>>, <<"save", File>>>>
    /\ Some(open(disk[File])) = _map

\* C19: a tile the getter returns that create_map once produced (returned
\* directly, from _map or from a cache file) was computed from the coordinates
\* the instance holds now, also after a reload_config to an area id used
\* before with other coordinates.
C19_TileOfActiveBox ==
    (op = "map_get" /\ err = "none" /\ ret[1].px \notin {t.px : t \in ExtTiles}) =>
        /\ coordinates # None
        /\ ret = create_map(coordinates).val

-----------------------------------------------------------------------------
(* Control flows without mutual exclusion: each flow is a process with its own
   MapManager, all share the cache directory, and a flow takes one statement
   of the map getter or setter that reaches the file system at a time. The
   record of a flow holds its position pc, its instance self and, as in the
   variables op, err, ret and tier, what its call did so far; unlinked tells
   that the setter has deleted the cache file and not yet saved it, missed
   that the getter looked for a cache file that had been saved and found
   none. *)

NumFlows == 2
Flows == 1..NumFlows
FlowTexts == {CfgA1}

\* a flow whose instance has loaded the config text
Ready(text) ==
    [pc |-> "idle",
     self |-> reload_config([area_id |-> None, coordinates |-> None,
                             map |-> None], text).self,
     op |-> "reload_config", err |-> "none", ret |-> None, tier |-> "none",
     unlinked |-> FALSE, missed |-> FALSE]

FlowInit ==
    /\ New /\ NoCall /\ dump = <<>> /\ AmNew
    /\ flow \in [Flows -> {Ready(text) : text \in FlowTexts}]
    /\ saved = <<>>

\* what a step gives: the flow, the cache directory, the files saved
Step(fl, dsk, svd) == [fl |-> fl, disk |-> dsk, saved |-> svd]

cache_file(fl) == map_cache_file(fl.self.area_id)

\* the flow starts the call named name
called(fl, name) ==
    [fl EXCEPT !.op = name, !.err = "none", !.ret = None, !.tier = "none",
               !.unlinked = FALSE, !.missed = FALSE]

\* the flow's call raises e
raises(fl, e) == [fl EXCEPT !.pc = "idle", !.err = e]

\* setter, "self._map = value"
set_assign(fl, value) == [fl EXCEPT !.self.map = Some(value), !.pc = "set_exists"]

\* setter, "if self.map_cache_file.exists()"
set_exists(fl, dsk, svd) ==
    Step([fl EXCEPT !.pc = IF cache_file(fl) \in DOMAIN dsk
                            THEN "set_unlink" ELSE "set_save"],
         dsk, svd)

\* setter, "self.map_cache_file.unlink()": Path.unlink raises FileNotFoundError
\* when the file is not there
set_unlink(fl, dsk, svd) ==
    IF cache_file(fl) \in DOMAIN dsk
    THEN Step([fl EXCEPT !.pc = "set_save", !.unlinked = TRUE],
              unlink(dsk, cache_file(fl)), svd)
    ELSE Step(raises(fl, "FileNotFoundError"), dsk, svd)

\* what the call returns once the setter is done: nothing for a setter call,
\* "map_image.convert('RGBA')" and "map_image" for the getter's branches
returned(fl) ==
    CASE fl.tier = "disk"    -> Some(convert_RGBA(fl.self.map[1]))
      [] fl.tier = "compute" -> fl.self.map
      [] OTHER               -> None

\* set_save that leaves the cache directory without the file
set_save_lost(fl, dsk, svd) ==
    Step([fl EXCEPT !.pc = "idle", !.ret = returned(fl), !.unlinked = FALSE],
         dsk, write(svd, cache_file(fl), fl.self.map[1]))

\* setter, "value.save(self.map_cache_file)", and the return of the call
set_save(fl, dsk, svd) ==
    Step([fl EXCEPT !.pc = "idle", !.ret = returned(fl), !.unlinked = FALSE],
         write(dsk, cache_file(fl), save(fl.self.map[1])),
         write(svd, cache_file(fl), fl.self.map[1]))

\* getter, "if self._map is not None: return self._map"
get_cached(fl) ==
    IF fl.self.map # None
    THEN [fl EXCEPT !.ret = fl.self.map, !.tier = "memory"]
    ELSE [fl EXCEPT !.pc = "get_exists"]

\* getter, "if self.map_cache_file.exists()"
get_exists(fl, dsk, svd) ==
    Step([fl EXCEPT !.pc = IF cache_file(fl) \in DOMAIN dsk
                            THEN "get_open" ELSE "get_create",
                    !.missed = /\ cache_file(fl) \in DOMAIN svd
                               /\ cache_file(fl) \notin DOMAIN dsk],
         dsk, svd)

\* getter, "map_image = Image.open(self.map_cache_file)" and the start of
\* "self.map = map_image": Image.open raises FileNotFoundError when the file
\* is not there
get_open(fl, dsk, svd) ==
    IF cache_file(fl) \in DOMAIN dsk
    THEN Step(set_assign([fl EXCEPT !.tier = "disk"],
                         open(dsk[cache_file(fl)])),
              dsk, svd)
    ELSE Step(raises(fl, "FileNotFoundError"), dsk, svd)

\* getter, "map_image = self.create_map()" and the start of
\* "self.map = map_image"
get_create(fl, dsk, svd) ==
    Step(set_assign([fl EXCEPT !.tier = "compute"],
                    create_map(fl.self.coordinates).val[1]),
         dsk, svd)

\* flow p takes a step that gives r
Stepped(p, r) ==
    /\ flow' = [flow EXCEPT ![p] = r.fl]
    /\ disk' = r.disk
    /\ saved' = r.saved
    /\ UNCHANGED <<area_id, coordinates, _map, op, err, ret, tier, io, computed,
                   rt, inval, call_vars, dump, am_vars>>

FlowSet(p, value) ==
    /\ flow[p].pc = "idle"
    /\ Stepped(p, Step(set_assign(called(flow[p], "map_set"), value), disk, saved))

FlowSetExists(p) ==
    /\ flow[p].pc = "set_exists"
    /\ Stepped(p, set_exists(flow[p], disk, saved))

FlowSetUnlink(p) ==
    /\ flow[p].pc = "set_unlink"
    /\ Stepped(p, set_unlink(flow[p], disk, saved))

FlowSetSave(p) ==
    /\ flow[p].pc = "set_save"
    /\ Stepped(p, set_save(flow[p], disk, saved))

FlowGet(p) ==
    /\ flow[p].pc = "idle"
    /\ Stepped(p, Step(get_cached(called(flow[p], "map_get")), disk, saved))

FlowGetExists(p) ==
    /\ flow[p].pc = "get_exists"
    /\ Stepped(p, get_exists(flow[p], disk, saved))

FlowGetOpen(p) ==
    /\ flow[p].pc = "get_open"
    /\ Stepped(p, get_open(flow[p], disk, saved))

FlowGetCreate(p) ==
    /\ flow[p].pc = "get_create"
    /\ Stepped(p, get_create(flow[p], disk, saved))

FlowNext ==
    \/ \E p \in Flows, value \in ExtTiles : FlowSet(p, value)
    \/ \E p \in Flows : FlowSetExists(p)
    \/ \E p \in Flows : FlowSetUnlink(p)
    \/ \E p \in Flows : FlowSetSave(p)
    \/ \E p \in Flows : FlowGet(p)
    \/ \E p \in Flows : FlowGetExists(p)
    \/ \E p \in Flows : FlowGetOpen(p)
    \/ \E p \in Flows : FlowGetCreate(p)

FlowSpec == FlowInit /\ [][FlowNext]_vars

\* flow p is between the unlink and the save of the setter, for cache file f
Between(p, f) ==
    /\ flow[p].pc = "set_save"
    /\ cache_file(flow[p]) = f
    /\ flow[p].unlinked

\* C16: the store being two steps, a cache file that was saved earlier is
\* missing from the cache directory only while some flow is between the
\* unlink and the save of its setter, and a getter whose existence check
\* fell into that window found no file and goes on to create_map.
C16_MissingMidUpdate ==
    /\ \A f \in DOMAIN saved :
          f \notin DOMAIN disk => \E p \in Flows : Between(p, f)
    /\ \A r \in Flows :
          (flow[r].op = "map_get" /\ flow[r].missed) =>
              /\ flow[r].tier \in {"none", "compute"}
              /\ flow[r].pc # "get_open"

\* one flow is between its unlink and its save, and the getter of another
\* flow has looked for the same file, saved earlier, and is at create_map
C16_Witness ==
    \E w, r \in Flows :
        /\ w # r
        /\ Between(w, cache_file(flow[r]))
        /\ flow[r].pc = "get_create" /\ flow[r].missed
        /\ cache_file(flow[r]) \in DOMAIN saved

\* C17: when flows store a tile for the same area at the same time, every
\* setter call ends without an exception, and once no flow is inside a call
\* the cache file exists and holds the image that was saved last.
C17_LastWriterWins ==
    /\ \A p \in Flows :
          (flow[p].op = "map_set" /\ flow[p].pc = "idle") => flow[p].err = "none"
    /\ (\A p \in Flows : flow[p].pc = "idle") =>
          \A f \in DOMAIN saved :
              f \in DOMAIN disk /\ open(disk[f]) = saved[f]

-----------------------------------------------------------------------------
(* AreaMap (src/src/us_map.py). Its latitudes lat1 and lat2 are floats in
   units of 1e-5 (render stores linearised latitudes in them), its longitudes
   floats in tenths. *)

\* the largest k with line[i..k] all digits, i - 1 if line[i] is no digit
RECURSIVE digit_run(_, _)
digit_run(line, i) ==
    IF i <= Len(line) /\ IsDigits(<<line[i]>>) THEN digit_run(line, i + 1)
    ELSE i - 1

\* the end of the match of [-+]?\d*\.\d+|\d+ that starts at i, 0 if none:
\* k is the end of the digits before the point of the first alternative
number_end(line, i, k) ==
    IF /\ k + 2 <= Len(line) /\ line[k + 1] = "."
       /\ digit_run(line, k + 2) >= k + 2
    THEN digit_run(line, k + 2)
    ELSE IF digit_run(line, i) >= i THEN digit_run(line, i)
    ELSE 0

number_at(line, i) ==
    number_end(line, i,
               digit_run(line, IF line[i] \in {"-", "+"} THEN i + 1 ELSE i))

\* re.findall(r"[-+]?\d*\.\d+|\d+", line) from position i on
RECURSIVE findall_numbers(_, _), found_number(_, _, _)
findall_numbers(line, i) ==
    IF i > Len(line) THEN <<>> ELSE found_number(line, i, number_at(line, i))

found_number(line, i, k) ==
    IF k = 0 THEN findall_numbers(line, i + 1)
    ELSE <<SubSeq(line, i, k)>> \o findall_numbers(line, k + 1)

\* the positions of a quote that another quote follows after at least one
\* character
quote_opens(line) ==
    {i \in 1..Len(line) :
        line[i] = DQ /\ \E j \in (i + 2)..Len(line) : line[j] = DQ}

quoted_from(line, i) ==
    SubSeq(line, i + 1,
           (CHOOSE j \in (i + 2)..Len(line) :
               line[j] = DQ /\ \A m \in (i + 2)..(j - 1) : line[m] # DQ) - 1)

\* re.findall(r'\"(.+?)\"', line)[0]: IndexError when nothing matches
first_quoted(line, opens) ==
    IF opens = {} THEN [err |-> "IndexError", val |-> None]
    ELSE [err |-> "none",
          val |-> Some(quoted_from(line, CHOOSE i \in opens :
                                             \A j \in opens : i <= j))]

\* "self.lat1, self.lon1, self.lat2, self.lon2 = (float(x) for x in coords)"
four_floats(coords) ==
    IF Len(coords) # 4 THEN [err |-> "ValueError", val |-> None]
    ELSE [err |-> "none",
          val |-> Some(<<pyfloat(coords[1]).val * 10000, pyfloat(coords[2]).val,
                         pyfloat(coords[3]).val * 10000, pyfloat(coords[4]).val>>)]

\* the loop of get_config over the lines of the file, a being what it has
\* assigned so far (None: not assigned)
RECURSIVE read_lines(_, _), read_id(_, _, _), read_coords(_, _, _)
read_lines(lines, a) ==
    IF Len(lines) = 0 THEN [a EXCEPT !.err = "none"]
    ELSE IF matches(Head(lines), AreaId_key)
    THEN read_id(first_quoted(Head(lines), quote_opens(Head(lines))),
                 Tail(lines), a)
    ELSE IF matches(Head(lines), Coordinates_key)
    THEN read_coords(four_floats(findall_numbers(Head(lines), 1)), Tail(lines), a)
    ELSE read_lines(Tail(lines), a)

read_id(q, rest, a) ==
    IF q.err # "none" THEN [a EXCEPT !.err = q.err]
    ELSE read_lines(rest, [a EXCEPT !.area_id = q.val])

read_coords(c, rest, a) ==
    IF c.err # "none" THEN [a EXCEPT !.err = c.err]
    ELSE read_lines(rest, [a EXCEPT !.box = c.val])

\* what get_config assigns from each text of the model, evaluated once
AmEntries ==
    {<<t, read_lines(t, [area_id |-> None, box |-> None, err |-> "none"])>> :
        t \in TwinTexts}

\* the attributes after the loop assigned e
assigned(a, e) ==
    [a EXCEPT !.area_id = IF e.area_id # None THEN e.area_id ELSE @,
              !.lat1 = IF e.box # None THEN Some(e.box[1][1]) ELSE @,
              !.lon1 = IF e.box # None THEN Some(e.box[1][2]) ELSE @,
              !.lat2 = IF e.box # None THEN Some(e.box[1][3]) ELSE @,
              !.lon2 = IF e.box # None THEN Some(e.box[1][4]) ELSE @]

config_read(a, e) ==
    [self |-> assigned(a, e), err |-> e.err,
     ret |-> IF e.err = "none" THEN Some(TRUE) ELSE None]

\* AreaMap.get_config(), files being the list glob returned: no file is
\* deleted and self.map is left as it is
get_config(a, dmp, files) ==
    IF Len(files) = 0 THEN [self |-> a, err |-> "none", ret |-> Some(FALSE)]
    ELSE config_read(a, (CHOOSE p \in AmEntries : p[1] = dmp[files[1]])[2])

\* math.asinh(math.tan(math.radians(val))) for val in units of 1e-5: the
\* latitudes of the configs and what render makes of them when it runs again
asinh_tan_radians_e5(val) ==
    CASE val % 10000 = 0 -> asinh_tan_radians(val \div 10000)
      [] val = 30558 -> 533
      [] val = 32836 -> 573
      [] val = 107459 -> 1876
      [] val = 107419 -> 1875
      [] val = 106116 -> 1852
      [] val = 106117 -> 1852

\* '{0}.png'.format(self.area_id)
map_name(aid) == IF aid = None THEN <<"None", ".png">> ELSE <<aid[1], ".png">>

\* the end of render, lat1 and lat2 being the linearised latitudes: the crop,
\* the resize, the conversion and the save
rendered(a, maps, lat1, lat2) ==
    [self |-> [a EXCEPT !.lat1 = Some(lat1), !.lat2 = Some(lat2),
                        !.map = Some(cropped(
                            <<x_pixel(a.lon1[1]),
                              int(lat1 * 3565, LAT_MAX - REF_LAT),
                              x_pixel(a.lon2[1]),
                              int(lat2 * 3565, LAT_MAX - REF_LAT)>>))],
     maps |-> write(maps, map_name(a.area_id),
                    save(cropped(<<x_pixel(a.lon1[1]),
                                   int(lat1 * 3565, LAT_MAX - REF_LAT),
                                   x_pixel(a.lon2[1]),
                                   int(lat2 * 3565, LAT_MAX - REF_LAT)>>))),
     err |-> "none", made |-> 1]

\* AreaMap.render(): self.lat1 and self.lat2 are overwritten with the
\* linearised latitudes; math.radians(None) raises TypeError
render(a, maps) ==
    IF a.lat1 = None
    THEN [self |-> a, maps |-> maps, err |-> "TypeError", made |-> 0]
    ELSE rendered(a, maps, LAT_MAX - asinh_tan_radians_e5(a.lat1[1]),
                  LAT_MAX - asinh_tan_radians_e5(a.lat2[1]))

\* the end of get_map when it rendered
map_rendered(r) ==
    [self |-> r.self, maps |-> r.maps, err |-> r.err,
     ret |-> IF r.err = "none" THEN r.self.map ELSE None,
     tier |-> IF r.err = "none" THEN "compute" ELSE "none", made |-> r.made]

\* AreaMap.get_map(): the attribute, then the file MAPS/<area_id>.png, then
\* render
get_map(a, maps) ==
    IF a.map # None
    THEN [self |-> a, maps |-> maps, err |-> "none", ret |-> a.map,
          tier |-> "memory", made |-> 0]
    ELSE IF map_name(a.area_id) \in DOMAIN maps
    THEN [self |-> [a EXCEPT !.map =
                       Some(convert_RGBA(open(maps[map_name(a.area_id)])))],
          maps |-> maps, err |-> "none",
          ret |-> Some(convert_RGBA(open(maps[map_name(a.area_id)]))),
          tier |-> "disk", made |-> 0]
    ELSE map_rendered(render(a, maps))

\* render runs at most this often on the coordinates of one get_config
MaxRenders == 2

\* a config file arrives in DUMP
AmDropped(name, text) ==
    /\ name \notin DOMAIN am_dump
    /\ am_dump' = write(am_dump, name, text)
    /\ am_call' = [am_call EXCEPT !.op = "drop", !.err = "none", !.ret = None,
                                  !.tier = "none"]
    /\ UNCHANGED <<am, am_maps>>

\* the observers after get_config gave r
AmPolled(r) ==
    /\ am' = r.self
    /\ am_call' = [op |-> "get_config", err |-> r.err, ret |-> r.ret,
                   tier |-> "none",
                   renders |-> IF r.ret = Some(TRUE) THEN 0 ELSE am_call.renders]
    /\ UNCHANGED <<am_dump, am_maps>>

\* the observers after render gave r
AmRendered(r) ==
    /\ am_call.renders + r.made <= MaxRenders
    /\ am' = r.self
    /\ am_maps' = r.maps
    /\ am_call' = [op |-> "render", err |-> r.err, ret |-> None, tier |-> "none",
                   renders |-> am_call.renders + r.made]
    /\ UNCHANGED am_dump

\* the observers after get_map gave r
AmGot(r) ==
    /\ am_call.renders + r.made <= MaxRenders
    /\ am' = r.self
    /\ am_maps' = r.maps
    /\ am_call' = [op |-> "get_map", err |-> r.err, ret |-> r.ret,
                   tier |-> r.tier, renders |-> am_call.renders + r.made]
    /\ UNCHANGED am_dump

\* the variables of the MapManager and of the calls beside it
mm_vars == <<area_id, coordinates, _map, disk, op, err, ret, tier, io, computed,
             rt, inval, other_vars>>

AmDrop(name, text) == AmDropped(name, text) /\ UNCHANGED <<mm_vars, twin>>

AmGetConfig(files) ==
    AmPolled(get_config(am, am_dump, files)) /\ UNCHANGED <<mm_vars, twin>>

AmRender == AmRendered(render(am, am_maps)) /\ UNCHANGED <<mm_vars, twin>>

AmGetMap == AmGot(get_map(am, am_maps)) /\ UNCHANGED <<mm_vars, twin>>

AreaNext ==
    \/ \E name \in DropNames \cup OtherNames, text \in TwinTexts : AmDrop(name, text)
    \/ \E files \in Orders(glob(am_dump)) : AmGetConfig(files)
    \/ AmRender
    \/ AmGetMap

AreaSpec == Init /\ [][AreaNext]_vars

\* C18: computing a tile reads the bounding box and leaves it unchanged
\* (create_map reads self.coordinates; render reads lat1, lon1, lat2, lon2),
\* so that a second render with no get_config between uses the same four
\* values and gives the same crop rectangle as the first.
C18_ProjectionPure ==
    [][(am_call'.op = "render" /\ am_call'.err = "none") =>
          /\ am'.lat1 = am.lat1 /\ am'.lon1 = am.lon1
          /\ am'.lat2 = am.lat2 /\ am'.lon2 = am.lon2
          /\ (am_call.op \in {"render", "get_map"} /\ am.map # None) =>
                am'.map[1].px = am.map[1].px]_vars

-----------------------------------------------------------------------------
(* A MapManager and an AreaMap side by side: each config file arrives in the
   dump directory of both, both are polled together and asked for the map
   together. twin records the tier each served the request from and the area
   of the tile each returned (the area of a tile is the one its instance had
   when the tile was opened or computed). *)

\* the names of S in the order they have in the list o
RECURSIVE listed(_, _)
listed(o, S) ==
    IF Len(o) = 0 THEN <<>>
    ELSE (IF Head(o) \in S THEN <<Head(o)>> ELSE <<>>) \o listed(Tail(o), S)

\* the area of the tile a request returned: held is the area of the tile in
\* memory, current the area of the instance
served(e, branch, held, current) ==
    IF e # "none" THEN None
    ELSE IF branch = "memory" THEN held
    ELSE current

\* the area id of a MapManager as a str
area_str(aid) == IF aid = None THEN None ELSE aid[1].items[1]

TwinDrop(name, text) ==
    /\ Dropped(name, text)
    /\ AmDropped(name, text)
    /\ UNCHANGED twin

\* both are polled, the directory listing being in the order o
TwinPoll(o) ==
    /\ Polled(find_and_reload_config(Self, dump, listed(o, glob(dump))))
    /\ AmPolled(get_config(am, am_dump, listed(o, glob(am_dump))))
    /\ twin' = [twin EXCEPT !.mm_held = IF _map' = None THEN None ELSE @,
                            !.am_held = IF am'.map = None THEN None ELSE @]

\* both are asked for the map
TwinGet ==
    /\ Got(map_getter(Self, disk))
    /\ AmGot(get_map(am, am_maps))
    /\ twin' =
          [mm_held |-> IF err' = "none"
                       THEN served(err', tier', twin.mm_held, area_str(area_id))
                       ELSE twin.mm_held,
           am_held |-> IF am_call'.err = "none"
                       THEN served(am_call'.err, am_call'.tier, twin.am_held,
                                   am.area_id)
                       ELSE twin.am_held,
           mm |-> [tier |-> tier',
                   area |-> served(err', tier', twin.mm_held, area_str(area_id))],
           am |-> [tier |-> am_call'.tier,
                   area |-> served(am_call'.err, am_call'.tier, twin.am_held,
                                   am.area_id)]]

TwinNext ==
    \/ \E name \in DropNames \cup OtherNames, text \in TwinTexts : TwinDrop(name, text)
    \/ \E o \in Orders(glob(dump) \cup glob(am_dump)) : TwinPoll(o)
    \/ TwinGet

TwinSpec == Init /\ [][TwinNext]_vars

\* C20: given the same config drops, polls and requests from the start, a
\* MapManager and an AreaMap serve each request from the same tier (memory,
\* file or computation) and return a tile of the same area; after a second
\* config both serve the area of that config.
C20_SameCache ==
    (op = "map_get" /\ am_call.op = "get_map") =>
        /\ twin.mm.tier = twin.am.tier
        /\ twin.mm.area = twin.am.area

=============================================================================
